---- MODULE Spec2Model ----
(***************************************************************************)
(* Model of backend/main.py of Dicere: the /analyze request flow (check    *)
(* the API key, upload, start the transcription, poll the job) and the     *)
(* scoring that analyze_audio performs on the completed transcript.        *)
(*                                                                         *)
(* Numbers.  Timestamps are integer milliseconds.  The values Python holds *)
(* as floats in the pacing and pause code (gap_sec, audio_duration_sec,    *)
(* wpm, wpm_score) are modelled as exact reduced fractions [n, d]; the     *)
(* sentiment code, whose result depends on the rounding of binary floating *)
(* point, is modelled with IEEE-754 double arithmetic (53-bit significand, *)
(* round-half-to-even) on significands held as five limbs.                *)
(* Strings that the code inspects character by character (word texts) are  *)
(* sequences of one-character strings.                                     *)
(***************************************************************************)
EXTENDS Integers, Sequences, FiniteSets, TLC

VARIABLES
    pc,         \* where the request stands: check_key, upload, transcribe, poll, done, failed
    API_KEY,    \* the configured key ("" when unset)
    response,   \* the provider's last answer to the upload or the job start
    status,     \* the job status of the last poll
    result,     \* the completed transcript
    report,     \* the value analyze_audio returns
    error       \* the HTTPException analyze_audio raises

vars == <<pc, API_KEY, response, status, result, report, error>>

(***************************************************************************)
(* Exact fractions: [n |-> numerator, d |-> denominator], d > 0, reduced.  *)
(***************************************************************************)
Abs(x) == IF x < 0 THEN -x ELSE x

RECURSIVE Gcd(_, _)
Gcd(a, b) == IF b = 0 THEN a ELSE Gcd(b, a % b)

Rat(n, d) ==
    LET s == IF d < 0 THEN -1 ELSE 1
        g == Gcd(Abs(n), Abs(d))
    IN  [n |-> (s * n) \div g, d |-> (s * d) \div g]

RInt(i) == [n |-> i, d |-> 1]
RAdd(a, b) == Rat(a.n * b.d + b.n * a.d, a.d * b.d)
RSub(a, b) == Rat(a.n * b.d - b.n * a.d, a.d * b.d)
RDiv(a, b) == Rat(a.n * b.d, a.d * b.n)
RLt(a, b) == a.n * b.d < b.n * a.d
RGt(a, b) == RLt(b, a)
RLe(a, b) == ~RLt(b, a)

\* Python max(0, x) on numbers
RMax0(x) == IF RLt(RInt(0), x) THEN x ELSE RInt(0)
Max0Missing(x) == x

Max0(x) == IF 0 > x THEN 0 ELSE x

\* Python int(x): truncation toward zero
RTrunc(x) == IF x.n >= 0 THEN x.n \div x.d ELSE -((-x.n) \div x.d)

RFloor(x) == x.n \div x.d

\* Python round(x, 1): nearest tenth, ties to the even tenth
Round1(x) ==
    LET f == (10 * x.n) \div x.d
        rest == 10 * x.n - f * x.d        \* fractional part of 10x, times x.d
        up == 2 * rest > x.d \/ (2 * rest = x.d /\ f % 2 = 1)
    IN  Rat(IF up THEN f + 1 ELSE f, 10)

(***************************************************************************)
(* IEEE-754 binary64 values, as far as the sentiment code needs them: a    *)
(* positive double is [m, e] with value M * 2^e, where the 53-bit          *)
(* significand M (2^52 <= M < 2^53) is held as five limbs                  *)
(* m = <<1, l1, l2, l3, l4>>, M = 2^52 + l1*2^39 + l2*2^26 + l3*2^13 + l4, *)
(* each limb below 2^13; zero is [m |-> <<>>, e |-> 0].  Every operation   *)
(* rounds to nearest, ties to even, as the hardware does.                  *)
(***************************************************************************)
LimbBase == 2^13

FZero == [m |-> <<>>, e |-> 0]

\* significand + 1, carried limb by limb from the last; the first limb is 2
\* when the significand overflows to 2^53
RECURSIVE LimbsInc(_, _)
LimbsInc(m, i) ==
    IF i = 1 \/ m[i] + 1 < LimbBase THEN [m EXCEPT ![i] = m[i] + 1]
    ELSE LimbsInc([m EXCEPT ![i] = 0], i - 1)

\* the double nearest to (m + fraction) * 2^e, where guard is the first bit
\* of the fraction and sticky says whether any later bit is set
FRound(m, e, guard, sticky) ==
    LET up == guard /\ (sticky \/ m[5] % 2 = 1)
        inc == LimbsInc(m, 5)
    IN  IF ~up THEN [m |-> m, e |-> e]
        ELSE IF inc[1] = 1 THEN [m |-> inc, e |-> e]
        ELSE [m |-> <<1, 0, 0, 0, 0>>, e |-> e + 1]

\* a / b * 2^(-t) for integers with b <= a < 2b, by long division, 13
\* quotient bits a step
FDivNormal(a, b, t) ==
    LET r0 == a - b
        l1 == (r0 * LimbBase) \div b
        r1 == (r0 * LimbBase) % b
        l2 == (r1 * LimbBase) \div b
        r2 == (r1 * LimbBase) % b
        l3 == (r2 * LimbBase) \div b
        r3 == (r2 * LimbBase) % b
        l4 == (r3 * LimbBase) \div b
        r4 == (r3 * LimbBase) % b
        guard == 2 * r4 >= b
        rest == IF guard THEN 2 * r4 - b ELSE 2 * r4
    IN  FRound(<<1, l1, l2, l3, l4>>, -52 - t, guard, rest > 0)

RECURSIVE FDivScaled(_, _, _)
FDivScaled(a, b, t) ==
    IF a < b THEN FDivScaled(2 * a, b, t + 1)
    ELSE IF a >= 2 * b THEN FDivScaled(a, 2 * b, t - 1)
    ELSE FDivNormal(a, b, t)

\* float(num) / float(den) for integers num >= 0, den > 0
FDivInt(num, den) == IF num = 0 THEN FZero ELSE FDivScaled(num, den, 0)

\* the number s with 2^s <= p < 2^(s+1)
RECURSIVE Log2(_)
Log2(p) == IF p < 2 THEN 0 ELSE 1 + Log2(p \div 2)

\* x * float(c) for a double x >= 0 and an integer 1 <= c < 2^13
FMulInt(x, c) ==
    IF x.m = <<>> THEN FZero
    ELSE LET v4 == x.m[5] * c
             v3 == x.m[4] * c + v4 \div LimbBase
             v2 == x.m[3] * c + v3 \div LimbBase
             v1 == x.m[2] * c + v2 \div LimbBase
             p0 == x.m[1] * c + v1 \div LimbBase
             p1 == v1 % LimbBase
             p2 == v2 % LimbBase
             p3 == v3 % LimbBase
             p4 == v4 % LimbBase
             s == Log2(p0)
             D == 2^s
             U == LimbBase \div D
             dropped == p4 % D
         IN  FRound(<<p0 \div D,
                      p1 \div D + (p0 % D) * U,
                      p2 \div D + (p1 % D) * U,
                      p3 \div D + (p2 % D) * U,
                      p4 \div D + (p3 % D) * U>>,
                    x.e + s,
                    s > 0 /\ 2 * dropped >= D,
                    s > 0 /\ (2 * dropped) % D > 0)

\* x > y on doubles >= 0
FGt(x, y) ==
    IF x.m = <<>> THEN FALSE
    ELSE IF y.m = <<>> THEN TRUE
    ELSE IF x.e # y.e THEN x.e > y.e
    ELSE \E i \in 1..5 : x.m[i] > y.m[i] /\ \A j \in 1..(i - 1) : x.m[j] = y.m[j]

\* Python int(x) for a double 0 <= x < 2^27
FInt(x) ==
    IF x.m = <<>> \/ x.e < -52 THEN 0
    ELSE IF x.e <= -39 THEN (x.m[1] * LimbBase + x.m[2]) \div 2^(-39 - x.e)
    ELSE ((x.m[1] * LimbBase + x.m[2]) * LimbBase + x.m[3]) \div 2^(-26 - x.e)

(***************************************************************************)
(* Strings of the word texts: sequences of one-character strings.          *)
(***************************************************************************)
UpperCase == <<"A", "B", "C", "D", "E", "F", "G", "H", "I", "J", "K", "L", "M",
               "N", "O", "P", "Q", "R", "S", "T", "U", "V", "W", "X", "Y", "Z">>
LowerCase == <<"a", "b", "c", "d", "e", "f", "g", "h", "i", "j", "k", "l", "m",
               "n", "o", "p", "q", "r", "s", "t", "u", "v", "w", "x", "y", "z">>

\* str.lower() on one character
CharLower(c) ==
    IF \E i \in DOMAIN UpperCase : UpperCase[i] = c
    THEN LowerCase[CHOOSE i \in DOMAIN UpperCase : UpperCase[i] = c]
    ELSE c

\* str.lower()
StrLower(text) == [i \in DOMAIN text |-> CharLower(text[i])]

\* str.replace(ch, '') for a one-character ch
StrRemove(text, ch) == SelectSeq(text, LAMBDA c : c # ch)

\* word['text'].lower().replace('.', '').replace(',', '')
clean_word(text) == StrRemove(StrRemove(StrLower(text), "."), ",")

\* the filler lexicon, in the order of the source list
fillers ==
    << <<"u", "m">>,
       <<"u", "m", "m">>,
       <<"u", "h">>,
       <<"h", "u", "h">>,
       <<"u", "h", "h">>,
       <<"l", "i", "k", "e">>,
       <<"h", "m", "m">>,
       <<"m", "h", "m">>,
       <<"y", "o", "u", " ", "k", "n", "o", "w">>,
       <<"a", "c", "t", "u", "a", "l", "l", "y">>,
       <<"b", "a", "s", "i", "c", "a", "l", "l", "y">>,
       <<"r", "i", "g", "h", "t">>,
       <<"w", "e", "l", "l">> >>

\* Python `x in list`
InList(x, list) == \E i \in DOMAIN list : list[i] = x

(***************************************************************************)
(* 5. Analyze for Fillers: one pass over the words.                        *)
(***************************************************************************)
IsFillerWordSubstring(word) ==
    LET cw == clean_word(word.text)
    IN  \E i \in DOMAIN fillers :
            \E k \in 0..(Len(cw) - Len(fillers[i])) :
                SubSeq(cw, k + 1, k + Len(fillers[i])) = fillers[i]

IsFillerWord(word) == InList(clean_word(word.text), fillers)

FillerScan(words) ==
    LET scan[i \in 0..Len(words)] ==
            IF i = 0 THEN [filler_count |-> 0, detected_fillers |-> <<>>]
            ELSE LET before == scan[i - 1]
                 IN  IF IsFillerWord(words[i])
                     THEN [filler_count |-> before.filler_count + 1,
                           detected_fillers |->
                               Append(before.detected_fillers, words[i])]
                     ELSE before
    IN  scan[Len(words)]

(***************************************************************************)
(* 6. Analyze for Pauses: gaps between consecutive words.                  *)
(***************************************************************************)
pause_threshold == Rat(3, 2)   \* 1.5 seconds

\* gap_sec of the pair (words[i], words[i+1]), i counted from 1
GapSec(words, i) == Rat(words[i + 1].start - words[i].end, 1000)

IsLongGapInclusive(gap_sec) == RLe(pause_threshold, gap_sec)

IsLongGap(gap_sec) == RGt(gap_sec, pause_threshold)

\* after_word_index is the 0-based index of the source
PauseScan(words) ==
    LET pairs == IF Len(words) = 0 THEN 0 ELSE Len(words) - 1
        scan[i \in 0..pairs] ==
            IF i = 0 THEN [long_pauses |-> 0, detected_pauses |-> <<>>]
            ELSE LET before == scan[i - 1]
                     gap_sec == GapSec(words, i)
                 IN  IF IsLongGap(gap_sec)
                     THEN [long_pauses |-> before.long_pauses + 1,
                           detected_pauses |->
                               Append(before.detected_pauses,
                                      [after_word_index |-> i - 1,
                                       duration |-> gap_sec])]
                     ELSE before
    IN  scan[pairs]

(***************************************************************************)
(* 7. Breakdown scores.                                                    *)
(***************************************************************************)
\* --- Pacing (WPM) ---
breathing_buffer_ms == 1000
min_wpm == 130
max_wpm == 170

\* audio_duration_sec after the active-speech override, in seconds
ActiveDurationNoGuard(res) ==
    IF Len(res.words) > 0
    THEN Rat(res.words[Len(res.words)].end - res.words[1].start
                 + breathing_buffer_ms, 1000)
    ELSE res.audio_duration

audio_duration_sec(res) ==
    IF Len(res.words) > 0
    THEN LET start_ms == res.words[1].start
             end_ms == res.words[Len(res.words)].end
             active_duration_ms == end_ms - start_ms
             adjusted_duration_ms == active_duration_ms + breathing_buffer_ms
         IN  IF adjusted_duration_ms > 0
             THEN Rat(adjusted_duration_ms, 1000)
             ELSE res.audio_duration
    ELSE res.audio_duration

audio_duration_min(res) ==
    IF RGt(audio_duration_sec(res), RInt(0))
    THEN RDiv(audio_duration_sec(res), RInt(60))
    ELSE RInt(1)

words_per_minute(res) ==
    IF RGt(audio_duration_min(res), RInt(0))
    THEN RDiv(RInt(Len(res.words)), audio_duration_min(res))
    ELSE RInt(0)

PaceFeedback(speed, verb) ==
    "Your pace is too " \o speed \o ". " \o verb \o " " \o ToString(min_wpm)
        \o "-" \o ToString(max_wpm) \o " WPM for the clearest speech."

PacingExclusiveBand(wpm) ==
    IF RLe(wpm, RInt(min_wpm))
    THEN [wpm_score |-> RMax0(RSub(RInt(100), RSub(RInt(min_wpm), wpm))),
          wpm_feedback |-> PaceFeedback("slow", "Aim for")]
    ELSE IF RLe(RInt(max_wpm), wpm)
    THEN [wpm_score |-> RMax0(RSub(RInt(100), RSub(wpm, RInt(max_wpm)))),
          wpm_feedback |-> PaceFeedback("fast", "Slow down to")]
    ELSE [wpm_score |-> RInt(100), wpm_feedback |-> "Perfect pacing."]

PacingUnclamped(wpm) ==
    IF RLt(wpm, RInt(min_wpm))
    THEN [wpm_score |-> RSub(RInt(100), RSub(RInt(min_wpm), wpm)),
          wpm_feedback |-> PaceFeedback("slow", "Aim for")]
    ELSE IF RGt(wpm, RInt(max_wpm))
    THEN [wpm_score |-> RSub(RInt(100), RSub(wpm, RInt(max_wpm))),
          wpm_feedback |-> PaceFeedback("fast", "Slow down to")]
    ELSE [wpm_score |-> RInt(100), wpm_feedback |-> "Perfect pacing."]

Pacing(wpm) ==
    IF RLt(wpm, RInt(min_wpm))
    THEN [wpm_score |-> RMax0(RSub(RInt(100), RSub(RInt(min_wpm), wpm))),
          wpm_feedback |-> PaceFeedback("slow", "Aim for")]
    ELSE IF RGt(wpm, RInt(max_wpm))
    THEN [wpm_score |-> RMax0(RSub(RInt(100), RSub(wpm, RInt(max_wpm)))),
          wpm_feedback |-> PaceFeedback("fast", "Slow down to")]
    ELSE [wpm_score |-> RInt(100), wpm_feedback |-> "Perfect pacing."]

\* --- Fillers ---
FillerWeight(word) ==
    LET text == clean_word(word.text)
    IN  IF InList(text, << <<"u", "m">>, <<"u", "h">> >>) THEN 5
        ELSE IF text = <<"l", "i", "k", "e">> THEN 3
        ELSE 2

filler_penalty(detected_fillers) ==
    LET sum[i \in 0..Len(detected_fillers)] ==
            IF i = 0 THEN 0 ELSE sum[i - 1] + FillerWeight(detected_fillers[i])
    IN  sum[Len(detected_fillers)]

Fillers(detected_fillers) ==
    LET filler_score == Max0(100 - filler_penalty(detected_fillers))
    IN  [filler_score |-> filler_score,
         filler_feedback |->
             IF filler_score = 100
             THEN "Excellent! No filler words detected."
             ELSE IF filler_score > 80
             THEN "A few filler words were detected, try to reduce usage of them."
             ELSE "High filler usage detected ("
                      \o ToString(Len(detected_fillers)) \o " found)."]

\* --- Pauses ---
pause_threshold_for_penalty_lenient == Rat(2, 1)

pause_threshold_for_penalty == pause_threshold

long_pause_penalty_count(detected_pauses) ==
    LET cnt[i \in 0..Len(detected_pauses)] ==
            IF i = 0 THEN 0
            ELSE cnt[i - 1]
                 + (IF RGt(detected_pauses[i].duration, pause_threshold_for_penalty)
                    THEN 1 ELSE 0)
    IN  cnt[Len(detected_pauses)]

Pauses(detected_pauses) ==
    LET pause_score == Max0(100 - long_pause_penalty_count(detected_pauses) * 15)
    IN  [pause_score |-> pause_score,
         pause_feedback |->
             IF pause_score = 100
             THEN IF Len(detected_pauses) = 0
                  THEN "Flow is continuous, great job!"
                  ELSE "A few pauses are natural, but be cognizant of them."
             ELSE IF pause_score > 70
             THEN "Awkward pauses detected, aim to talk with confidence."
             ELSE "Minimize long silences (>1.5s) to maintain engagement."]

\* --- Sentiment ---
negative_count(sentiment_results) ==
    LET cnt[i \in 0..Len(sentiment_results)] ==
            IF i = 0 THEN 0
            ELSE cnt[i - 1]
                 + (IF sentiment_results[i].sentiment = "NEGATIVE" THEN 1 ELSE 0)
    IN  cnt[Len(sentiment_results)]

Sentiment(sentiment_results) ==
    LET total_sentences == Len(sentiment_results)
        negatives == negative_count(sentiment_results)
        neg_ratio == FDivInt(negatives, total_sentences)
        sentiment_score ==
            IF total_sentences > 0 /\ FGt(neg_ratio, FDivInt(1, 10))
            THEN Max0(100 - FInt(FMulInt(neg_ratio, 100)))
            ELSE 100
    IN  [sentiment_score |-> sentiment_score,
         negative_sentences |-> negatives,
         total_sentences |-> total_sentences,
         sentiment_feedback |->
             IF sentiment_score >= 90
             THEN "Tone is positive and professional."
             ELSE IF sentiment_score > 70
             THEN "Tone is mostly okay, but some negativity detected."
             ELSE "Watch your tone - significant negative sentiment detected."]

\* --- Overall ---
OverallRounded(wpm_score, filler_score, pause_score, sentiment_score) ==
    LET mean == RDiv(RAdd(wpm_score,
                          RInt(filler_score + pause_score + sentiment_score)),
                     RInt(4))
    IN  RFloor(RAdd(mean, Rat(1, 2)))

overall_score(wpm_score, filler_score, pause_score, sentiment_score) ==
    RTrunc(RDiv(RAdd(wpm_score,
                     RInt(filler_score + pause_score + sentiment_score)),
                RInt(4)))

(***************************************************************************)
(* Steps 4 to 7 of analyze_audio and the returned report, for the          *)
(* completed transcript res.                                               *)
(***************************************************************************)
Analyze(res) ==
    LET f == FillerScan(res.words)
        p == PauseScan(res.words)
        wpm == words_per_minute(res)
        pacing == Pacing(wpm)
        fill == Fillers(f.detected_fillers)
        paus == Pauses(p.detected_pauses)
        sent == Sentiment(res.sentiment_analysis_results)
    IN  [score |-> overall_score(pacing.wpm_score, fill.filler_score,
                                 paus.pause_score, sent.sentiment_score),
         wpm |-> Round1(wpm),
         fillers_detected |-> f.filler_count,
         long_pauses |-> p.long_pauses,
         category_scores |->
             [pacing |-> pacing.wpm_score,
              fillers |-> fill.filler_score,
              pauses |-> paus.pause_score,
              sentiment |-> sent.sentiment_score],
         category_feedback |->
             [pacing |-> pacing.wpm_feedback,
              fillers |-> fill.filler_feedback,
              pauses |-> paus.pause_feedback,
              sentiment |-> sent.sentiment_feedback],
         sentiment_stats |->
             [negative_sentences |-> sent.negative_sentences,
              total_sentences |-> sent.total_sentences],
         feedback |-> pacing.wpm_feedback \o " " \o fill.filler_feedback \o " "
                          \o paus.pause_feedback \o " " \o sent.sentiment_feedback,
         transcript_text |-> res.text,
         words |-> res.words,
         detailed_pauses |-> p.detected_pauses]

(***************************************************************************)
(* The completed transcripts the provider can return: res.words,           *)
(* res.text, res.audio_duration, res.sentiment_analysis_results.           *)
(***************************************************************************)
MaxWords == 2        \* word sequences up to this length are enumerated in full
MaxRun == 21         \* longest patterned word sequence (21 "um" cost 105 points)
MaxSentences == 50   \* longest patterned sentiment list
MaxLabels == 3       \* sentiment lists up to this length are enumerated in full

Transcript(words, audio_duration, sentiment_results) ==
    [words |-> words, text |-> "transcript", audio_duration |-> audio_duration,
     sentiment_analysis_results |-> sentiment_results]

Word(text, start, end) == [text |-> text, start |-> start, end |-> end]

SeqsUpTo(S, n) == UNION {[1..k -> S] : k \in 0..n}

\* word texts: fillers in several spellings, near misses and plain words
Texts ==
    { <<"u", "m">>, <<"U", "m", ",">>, <<"U", "H", ".">>, <<"u", ".", "m">>,
      <<"u", "m", "!">>, <<"u", "m", "m">>, <<"L", "i", "k", "e">>,
      <<"l", "i", "k", "e", "l", "y">>, <<"w", "e", "l", "l", ".">>,
      <<"y", "o", "u", " ", "k", "n", "o", "w">>, <<"y", "o", "u">>,
      <<"h", "u", "m">>, <<"t", "e", "s", "t">>, <<".">> }

RunTexts == { <<"u", "m">>, <<"l", "i", "k", "e">>, <<"w", "e", "l", "l">>,
              <<"t", "e", "s", "t">> }

\* timestamps in ms: gaps of 1500, 1501 and 1600 ms, and inverted ones
Times == {0, 100, 1600, 1601}

RunGaps == {100, 1500, 1501}

\* active-speech spans (last end - first start) in ms
Spans == {-1000, -999, 0, 1000, 5000, 11000}

AudioDurations == {Rat(-2, 1), Rat(0, 1), Rat(3, 2), Rat(6, 1), Rat(60, 1)}

Labels == {"POSITIVE", "NEUTRAL", "NEGATIVE"}

\* words spoken back to back, 300 ms each, 100 ms apart
Spoken(texts) == [i \in DOMAIN texts |->
                     Word(texts[i], (i - 1) * 400, (i - 1) * 400 + 300)]

\* n words, the first k with text a and the others with text b
TextRun(n, k, a, b) == Spoken([i \in 1..n |-> IF i <= k THEN a ELSE b])

\* n words of 200 ms, the first k followed by a gap gapA, the others by gapB
GapRun(n, k, gapA, gapB) ==
    [i \in 1..n |->
        LET at == IF i <= k THEN (i - 1) * (200 + gapA)
                  ELSE k * (200 + gapA) + (i - 1 - k) * (200 + gapB)
        IN  Word(<<"g", "o">>, at, at + 200)]

\* n words whose last one ends span ms after the first one starts
SpanRun(n, span) ==
    [i \in 1..n |-> Word(<<"g", "o">>, (i - 1) * 10,
                         IF i = n THEN span ELSE (i - 1) * 10 + 5)]

\* n sentences, the first k NEGATIVE and the others labelled other
SentimentRun(n, k, other) ==
    [i \in 1..n |-> [sentiment |-> IF i <= k THEN "NEGATIVE" ELSE other]]

FillerTranscripts ==
    {Transcript(Spoken(t), Rat(0, 1), <<>>) : t \in SeqsUpTo(Texts, MaxWords)}
    \cup UNION {{Transcript(TextRun(n, k, a, b), Rat(0, 1), <<>>) :
                     k \in 0..n, a \in RunTexts, b \in RunTexts} : n \in 1..MaxRun}

TimedWords == {Word(<<"g", "o">>, s, e) : s \in Times, e \in Times}

PauseTranscripts ==
    {Transcript(w, Rat(0, 1), <<>>) : w \in SeqsUpTo(TimedWords, MaxWords)}
    \cup UNION {{Transcript(GapRun(n, k, gapA, gapB), Rat(0, 1), <<>>) :
                     k \in 0..n, gapA \in RunGaps, gapB \in RunGaps} :
                 n \in 1..MaxRun}

PacingTranscripts ==
    {Transcript(SpanRun(n, span), d, <<>>) :
         n \in 0..MaxRun, span \in Spans, d \in AudioDurations}

ShortSentimentLists ==
    {[i \in DOMAIN l |-> [sentiment |-> l[i]]] : l \in SeqsUpTo(Labels, MaxLabels)}

SentimentLists ==
    ShortSentimentLists
    \cup UNION {{SentimentRun(n, k, "NEUTRAL") : k \in 0..n} : n \in 1..MaxSentences}

SentimentTranscripts ==
    {Transcript(Spoken(<< <<"t", "e", "s", "t">> >>), Rat(0, 1), l) :
         l \in SentimentLists}

\* 15 words in 6 s: one "um", one 1.6 s gap
ExampleWords ==
    [i \in 1..15 |->
        IF i = 1 THEN Word(<<"u", "m">>, 0, 100)
        ELSE Word(<<"g", "o">>, 1700 + i * 10,
                  IF i = 15 THEN 5000 ELSE 1700 + i * 10 + 5)]

\* every category varied at once, on short inputs
MixedTranscripts ==
    {Transcript(w, d, SentimentRun(n, k, "NEUTRAL")) :
         w \in {Spoken(<< <<"U", "m", ",">>, <<"t", "e", "s", "t">> >>),
                GapRun(3, 1, 1501, 100), GapRun(MaxRun, MaxRun, 1501, 1501),
                TextRun(MaxRun, MaxRun, <<"u", "m">>, <<"u", "m">>),
                SpanRun(5, 0), SpanRun(13, 5000), SpanRun(9, 3320)},
         d \in AudioDurations, n \in 0..4, k \in 0..4}
    \cup {Transcript(ExampleWords, Rat(6, 1), SentimentRun(10, k, "POSITIVE")) :
              k \in 0..10}

EmptyTranscripts ==
    {Transcript(<<>>, d, l) : d \in AudioDurations, l \in ShortSentimentLists}

Transcripts ==
    FillerTranscripts \cup PauseTranscripts \cup PacingTranscripts
        \cup SentimentTranscripts \cup MixedTranscripts \cup EmptyTranscripts

(***************************************************************************)
(* The /analyze request.                                                   *)
(***************************************************************************)
None == [none |-> TRUE]

UPLOAD_ENDPOINT == "https://api.assemblyai.com/v2/upload"
TRANSCRIPT_ENDPOINT == "https://api.assemblyai.com/v2/transcript"

StatusCodes == {200, 401, 500}

JobStatuses == {"queued", "processing", "completed", "error"}

HTTPException(status_code, detail) ==
    [status_code |-> status_code, detail |-> detail]

Raise(exception) ==
    /\ pc' = "failed"
    /\ error' = exception
    /\ UNCHANGED <<API_KEY, result, report>>

Init ==
    /\ pc = "check_key"
    /\ API_KEY \in {"", "secret"}      \* os.getenv: unset or empty, or set
    /\ response = None
    /\ status = "none"
    /\ result = None
    /\ report = None
    /\ error = None

\* analyze_audio: `if not API_KEY`
KeyMissing == API_KEY = ""

CheckApiKey ==
    /\ pc = "check_key"
    /\ IF KeyMissing
       THEN Raise(HTTPException(500, "AssemblyAI API Key not configured"))
       ELSE pc' = "upload" /\ UNCHANGED <<API_KEY, result, report, error>>
    /\ UNCHANGED <<response, status>>

\* upload_to_assemblyai
Upload ==
    /\ pc = "upload"
    /\ \E status_code \in StatusCodes :
          /\ response' = [url |-> UPLOAD_ENDPOINT, status_code |-> status_code]
          /\ IF status_code # 200
             THEN Raise(HTTPException(status_code,
                                      "Failed to upload audio to AssemblyAI"))
             ELSE pc' = "transcribe" /\ UNCHANGED <<API_KEY, result, report, error>>
    /\ UNCHANGED status

\* transcribe_audio
StartTranscription ==
    /\ pc = "transcribe"
    /\ \E status_code \in StatusCodes :
          /\ response' = [url |-> TRANSCRIPT_ENDPOINT, status_code |-> status_code]
          /\ IF status_code # 200
             THEN Raise(HTTPException(status_code, "Failed to start transcription"))
             ELSE pc' = "poll" /\ UNCHANGED <<API_KEY, result, report, error>>
    /\ UNCHANGED status

\* one round of the polling loop of get_transcription_result; on
\* 'completed' the rest of analyze_audio runs on the response
PollIgnoringError(job_status) == FALSE

PollFailed(job_status) == job_status = "error"

Poll ==
    /\ pc = "poll"
    /\ \E job_status \in JobStatuses :
          /\ status' = job_status
          /\ IF job_status = "completed"
             THEN \E res \in Transcripts :
                     /\ result' = res
                     /\ report' = Analyze(res)
                     /\ pc' = "done"
                     /\ UNCHANGED <<API_KEY, error>>
             ELSE IF PollFailed(job_status)
             THEN Raise(HTTPException(500, "Transcription failed"))
             ELSE UNCHANGED <<pc, API_KEY, result, report, error>>
    /\ UNCHANGED response

Next == CheckApiKey \/ Upload \/ StartTranscription \/ Poll

Spec == Init /\ [][Next]_vars

(***************************************************************************)
(* Properties.                                                             *)
(***************************************************************************)
Done == pc = "done"

Scores == report.category_scores

\* gap in ms after the i-th word (i counted from 1)
GapMs(i) == result.words[i + 1].start - result.words[i].end

LongGapIndices == {i \in 1..(Len(result.words) - 1) : GapMs(i) > 1500}

TooSlow == "Your pace is too slow. Aim for 130-170 WPM for the clearest speech."
TooFast == "Your pace is too fast. Slow down to 130-170 WPM for the clearest speech."

\* C1: whatever the words, the sentiments and the reported duration, each of
\* the four category scores of the report lies in [0, 100].
C1_ScoresInRange ==
    Done => /\ RLe(RInt(0), Scores.pacing) /\ RLe(Scores.pacing, RInt(100))
            /\ Scores.fillers \in 0..100
            /\ Scores.pauses \in 0..100
            /\ Scores.sentiment \in 0..100

\* a report whose pause penalties exceed 100 points and whose sentences are
\* all NEGATIVE
C1_Witness ==
    /\ Done
    /\ 15 * report.long_pauses > 100 /\ Scores.pauses = 0
    /\ result.sentiment_analysis_results # <<>> /\ Scores.sentiment = 0

\* C2: the overall score is the floor of the mean of the four category scores
\* of the same report.
C2_OverallIsFlooredMean ==
    Done => report.score =
                RFloor(Rat(Scores.pacing.n
                           + (Scores.fillers + Scores.pauses + Scores.sentiment)
                                 * Scores.pacing.d,
                           4 * Scores.pacing.d))

\* the example of the specification: 100, 95, 85, 70 give 87
C2_Witness ==
    /\ Done
    /\ Scores = [pacing |-> RInt(100), fillers |-> 95, pauses |-> 85,
                 sentiment |-> 70]
    /\ report.score = 87

\* C3: long_pauses counts the gaps strictly above 1500 ms, detailed_pauses
\* lists exactly those gaps in increasing index order with their length in
\* seconds, and the pause score is max(0, 100 - 15 * long_pauses).
C3_PausesCounted ==
    Done =>
        LET dp == report.detailed_pauses
        IN  /\ report.long_pauses = Cardinality(LongGapIndices)
            /\ Len(dp) = Cardinality(LongGapIndices)
            /\ {dp[j].after_word_index + 1 : j \in DOMAIN dp} = LongGapIndices
            /\ \A j \in DOMAIN dp :
                  /\ j > 1 => dp[j - 1].after_word_index < dp[j].after_word_index
                  /\ dp[j].after_word_index \in 0..(Len(result.words) - 2)
                  /\ dp[j].duration.n * 1000
                         = GapMs(dp[j].after_word_index + 1) * dp[j].duration.d
            /\ Scores.pauses = (IF 100 - 15 * report.long_pauses > 0
                                THEN 100 - 15 * report.long_pauses ELSE 0)

\* a gap of exactly 1500 ms (not counted) next to one of 1501 ms (counted)
C3_Witness ==
    /\ Done /\ Len(result.words) = 3
    /\ GapMs(1) = 1500 /\ GapMs(2) = 1501
    /\ report.long_pauses = 1 /\ Scores.pauses = 85

\* C4: fillers_detected counts the words whose normalized text is, as a whole,
\* one of the 13 lexicon entries, and the filler score is max(0, 100 - P) with
\* P = 5 per "um"/"uh", 3 per "like", 2 per other lexicon entry.
Normalized(i) ==
    SelectSeq([k \in DOMAIN result.words[i].text |->
                   CharLower(result.words[i].text[k])],
              LAMBDA c : c \notin {".", ","})

Lexicon == {fillers[i] : i \in DOMAIN fillers}

FillerIndices == {i \in DOMAIN result.words : Normalized(i) \in Lexicon}

C4_Penalty ==
    LET umuh == {i \in FillerIndices :
                    Normalized(i) \in {<<"u", "m">>, <<"u", "h">>}}
        like == {i \in FillerIndices : Normalized(i) = <<"l", "i", "k", "e">>}
    IN  5 * Cardinality(umuh) + 3 * Cardinality(like)
            + 2 * Cardinality(FillerIndices \ (umuh \cup like))

C5_SentimentFormula ==
    Done =>
        LET N == Len(result.sentiment_analysis_results)
            K == Cardinality({i \in 1..N :
                     result.sentiment_analysis_results[i].sentiment = "NEGATIVE"})
        IN  Scores.sentiment =
                IF N = 0 \/ 10 * K <= N THEN 100
                ELSE IF 100 - (100 * K) \div N > 0 THEN 100 - (100 * K) \div N
                ELSE 0

\* C6: the duration behind wpm is the buffered span of the words when there
\* are words and it is positive, else the reported duration when positive,
\* else one minute; wpm is the word count over that duration in minutes.
C6_Span == result.words[Len(result.words)].end - result.words[1].start + 1000

C6_Seconds ==
    IF result.words # <<>> /\ C6_Span > 0 THEN Rat(C6_Span, 1000)
    ELSE IF result.audio_duration.n > 0 THEN result.audio_duration
    ELSE RInt(60)

C6_Wpm == Rat(Len(result.words) * 60 * C6_Seconds.d, C6_Seconds.n)

C6_DurationChoice ==
    Done => /\ C6_Seconds.n > 0
            /\ RDiv(C6_Seconds, RInt(60)) = audio_duration_min(result)
            /\ words_per_minute(result) = C6_Wpm
            /\ report.wpm = Round1(C6_Wpm)

\* words whose buffered span is not positive: the reported 6 s are used
C6_Witness ==
    /\ Done /\ Len(result.words) = 13 /\ C6_Span <= 0
    /\ result.audio_duration = RInt(6)
    /\ report.wpm = RInt(130)

\* C7: the pacing score is 100 with "Perfect pacing." exactly when
\* 130 <= wpm <= 170; below, it is max(0, 100 - (130 - wpm)) with the "too
\* slow" feedback; above, max(0, 100 - (wpm - 170)) with "too fast".
C7_PacingBand ==
    Done =>
        LET wpm == words_per_minute(result)
            fb == report.category_feedback.pacing
            below == Rat(wpm.n - 30 * wpm.d, wpm.d)    \* 100 - (130 - wpm)
            above == Rat(270 * wpm.d - wpm.n, wpm.d)   \* 100 - (wpm - 170)
        IN  /\ (Scores.pacing = RInt(100) /\ fb = "Perfect pacing.")
                   <=> (wpm.n >= 130 * wpm.d /\ wpm.n <= 170 * wpm.d)
            /\ wpm.n < 130 * wpm.d =>
                   /\ Scores.pacing = (IF below.n > 0 THEN below ELSE RInt(0))
                   /\ fb = TooSlow
            /\ wpm.n > 170 * wpm.d =>
                   /\ Scores.pacing = (IF above.n > 0 THEN above ELSE RInt(0))
                   /\ fb = TooFast

\* exactly 170 words per minute
C7_Witness ==
    /\ Done /\ words_per_minute(result) = RInt(170)
    /\ Scores.pacing = RInt(100)
    /\ report.category_feedback.pacing = "Perfect pacing."

\* C8: without words the report has no fillers (score 100, "no fillers"), no
\* pauses (score 100, empty list), wpm 0 and pacing score 0 ("too slow").
C8_EmptyWords ==
    (Done /\ result.words = <<>>) =>
        /\ report.fillers_detected = 0 /\ Scores.fillers = 100
        /\ report.category_feedback.fillers = "Excellent! No filler words detected."
        /\ report.long_pauses = 0 /\ Scores.pauses = 100
        /\ report.detailed_pauses = <<>>
        /\ report.wpm = RInt(0) /\ Scores.pacing = RInt(0)
        /\ report.category_feedback.pacing = TooSlow

C8_Witness ==
    /\ Done /\ result.words = <<>>
    /\ result.audio_duration = RInt(60)
    /\ Len(result.sentiment_analysis_results) = 2

\* C9 as stated: a request fails only when the provider's upload, job start
\* or polled job status reports a failure; a polled 'error' ends the request
\* with an error and no report; a report follows a 'completed' poll only.
UpstreamFailure ==
    \/ response # None /\ response.status_code # 200
    \/ status = "error"

C9_OnlyUpstreamFailures ==
    /\ pc = "failed" => UpstreamFailure
    /\ status = "error" => pc = "failed" /\ report = None
    /\ report # None => status = "completed"

\* C9 amended: a request fails only when the API key is not configured or the
\* provider reports a failure, with the matching HTTPException.
C9_FailuresAmended ==
    /\ pc = "failed" =>
          \/ /\ KeyMissing /\ response = None
             /\ error = HTTPException(500, "AssemblyAI API Key not configured")
          \/ /\ response # None /\ response.status_code # 200
             /\ error.status_code = response.status_code
             /\ error.detail = (IF response.url = UPLOAD_ENDPOINT
                                THEN "Failed to upload audio to AssemblyAI"
                                ELSE "Failed to start transcription")
          \/ /\ status = "error"
             /\ error = HTTPException(500, "Transcription failed")
    /\ status = "error" => pc = "failed" /\ report = None
    /\ report # None => status = "completed" /\ pc = "done"
    /\ pc # "failed" => error = None

C9_Witness ==
    /\ pc = "failed" /\ status = "error" /\ report = None
    /\ error = HTTPException(500, "Transcription failed")

\* C10: the pause score is 100 exactly when no pause was recorded, so the
\* "A few pauses are natural" feedback is never given.
C10_NaturalPausesUnreachable ==
    Done =>
        /\ report.category_feedback.pauses
               # "A few pauses are natural, but be cognizant of them."
        /\ Scores.pauses = 100 <=> report.detailed_pauses = <<>>

\* one recorded pause of 1.501 s costs its 15 points
C10_Witness ==
    /\ Done /\ Len(report.detailed_pauses) = 1
    /\ report.detailed_pauses[1].duration = Rat(1501, 1000)
    /\ Scores.pauses = 85
    /\ report.category_feedback.pauses
           = "Awkward pauses detected, aim to talk with confidence."

====
